---- MODULE Spec2Model ----
(***************************************************************************)
(* A model of the tpe crate: Range, the two density estimators and the     *)
(* ask/tell protocol of TpeOptimizer.                                      *)
(*                                                                         *)
(* Numbers.  An f64 is modelled as an integer count of 1/Unit, so that     *)
(* every quotient the code forms on the modelled inputs is exact; three    *)
(* codes outside the finite band stand for -inf, +inf and NaN.  The codes  *)
(* are ordered NegInf < finite < PosInf < NaN, which is the total order    *)
(* of ordered_float::OrderedFloat, so an OrderedFloat key compares as      *)
(* the integer code does.  IEEE comparisons are the F* operators.          *)
(***************************************************************************)
EXTENDS Integers, Sequences, FiniteSets, Bags, TLC

\* ------------------------------------------------------------------ bounds

\* Most trials an optimizer records in the model.
MaxTrials == 3

\* Most draws one ParzenEstimator::sample call rejects in the model.
MaxRejects == 1

\* ------------------------------------------------------------------ f64

\* f64::MAX: a finite result beyond it rounds to an infinity.
F64Max == 100000

PosInf == 1000000

NegInf == -1000000

NaN == 1000001

RECURSIVE Gcd(_, _)
Gcd(a, b) == IF b = 0 THEN a ELSE Gcd(b, a % b)

RECURSIVE LcmUpTo(_)
LcmUpTo(k) == IF k <= 1 THEN 1 ELSE LET l == LcmUpTo(k - 1) IN (l * k) \div Gcd(l, k)

\* The number 1.0.  ParzenEstimatorBuilder divides a width by 1 + n for at most
\* MaxTrials + 1 components, halves a sum, and the default gamma is a tenth; Unit
\* makes these exact.
Unit == 10 * LcmUpTo(MaxTrials + 2)

is_nan(x) == x = NaN

is_finite(x) == x # NaN /\ x # PosInf /\ x # NegInf

\* IEEE <, <= : false when an operand is NaN.
FLt(a, b) == ~is_nan(a) /\ ~is_nan(b) /\ a < b

FLe(a, b) == ~is_nan(a) /\ ~is_nan(b) /\ a <= b

\* Rounding of a real result to f64: overflow gives an infinity.
Round(r) == IF r > F64Max THEN PosInf ELSE IF r < -F64Max THEN NegInf ELSE r

\* IEEE a - b.
FSub(a, b) ==
    IF is_nan(a) \/ is_nan(b) THEN NaN
    ELSE IF a = PosInf THEN (IF b = PosInf THEN NaN ELSE PosInf)
    ELSE IF a = NegInf THEN (IF b = NegInf THEN NaN ELSE NegInf)
    ELSE IF b = PosInf THEN NegInf
    ELSE IF b = NegInf THEN PosInf
    ELSE Round(a - b)

\* IEEE a + b.
FAdd(a, b) ==
    IF is_nan(a) \/ is_nan(b) THEN NaN
    ELSE IF a = PosInf THEN (IF b = NegInf THEN NaN ELSE PosInf)
    ELSE IF a = NegInf THEN (IF b = PosInf THEN NaN ELSE NegInf)
    ELSE IF ~is_finite(b) THEN b
    ELSE Round(a + b)

\* IEEE a * 0.5: an infinity and NaN stay what they are.
FHalf(a) == IF is_finite(a) THEN a \div 2 ELSE a

\* f64::max, f64::min on operands that are not NaN.
FMax(a, b) == IF a >= b THEN a ELSE b

FMin(a, b) == IF a <= b THEN a ELSE b

\* f64::floor and f64::ceil of a finite number, as a whole number (not scaled).
FloorInt(x) == x \div Unit

CeilInt(x) == -((-x) \div Unit)

\* `f as usize`: a saturating cast, NaN and negatives give 0.
AsUsize(i) == IF i < 0 THEN 0 ELSE i

\* ------------------------------------------------------------------ Range

\* A Range is the pair of its fields.
MkRange(start, end) == [start |-> start, end |-> end]

NoRange == MkRange(NaN, NaN)

\* Range::new with its two checks in the other order.
RangeNewResultEmptyFirst(start, end) ==
    IF ~FLt(start, end) THEN "EmptyRange"
    ELSE IF ~is_finite(FSub(end, start)) THEN "NonFiniteRange"
    ELSE "Ok"

\* Range::new: the error, or "Ok".
RangeNewResult(start, end) ==
    IF ~is_finite(FSub(end, start)) THEN "NonFiniteRange"
    ELSE IF ~FLt(start, end) THEN "EmptyRange"
    ELSE "Ok"

width(r) == FSub(r.end, r.start)

contains(r, v) == FLe(r.start, v) /\ FLt(v, r.end)

\* ------------------------------------------------------------------ sorting

\* The place a stable sort gives x among the already sorted s: after every
\* element whose key is not greater.  key names the field the closure reads;
\* the OrderedFloat order of the field is the order of its code.
RECURSIVE InsertByKey(_, _, _)
InsertByKey(s, x, key) ==
    IF s = <<>> THEN <<x>>
    ELSE IF Head(s)[key] <= x[key] THEN <<Head(s)>> \o InsertByKey(Tail(s), x, key)
    ELSE <<x>> \o s

\* An unstable sort: x goes in front of the elements with an equal key.
RECURSIVE InsertBeforeEqual(_, _, _)
InsertBeforeEqual(s, x, key) ==
    IF s = <<>> THEN <<x>>
    ELSE IF Head(s)[key] < x[key] THEN <<Head(s)>> \o InsertBeforeEqual(Tail(s), x, key)
    ELSE <<x>> \o s

RECURSIVE sort_unstable_by_key(_, _)
sort_unstable_by_key(s, key) ==
    IF s = <<>> THEN <<>>
    ELSE InsertBeforeEqual(sort_unstable_by_key(SubSeq(s, 1, Len(s) - 1), key), s[Len(s)], key)

\* slice::sort_by_key: a stable sort, ascending in the key.
RECURSIVE sort_by_key(_, _)
sort_by_key(s, key) ==
    IF s = <<>> THEN <<>>
    ELSE InsertByKey(sort_by_key(SubSeq(s, 1, Len(s) - 1), key), s[Len(s)], key)

\* The params of a slice of trials, unfiltered.
AllParams(ts) == [i \in DOMAIN ts |-> ts[i].param]

\* `.map(|t| t.param).filter(|p| p.is_finite())` on a slice of trials.
RECURSIVE FiniteParams(_)
FiniteParams(ts) ==
    IF ts = <<>> THEN <<>>
    ELSE (IF is_finite(Head(ts).param) THEN <<Head(ts).param>> ELSE <<>>)
             \o FiniteParams(Tail(ts))

\* Iterator::max_by_key over (ei, candidate) pairs keyed by OrderedFloat(ei):
\* the fold keeps the accumulator only when it is strictly greater, so among
\* equal keys the last element wins.  None (here NoPair) on an empty iterator.
NoPair == [ei |-> NaN, candidate |-> NaN]

RECURSIVE MaxByKeyFrom(_, _)
MaxByKeyFrom(acc, s) ==
    IF s = <<>> THEN acc
    ELSE MaxByKeyFrom(IF acc.ei > Head(s).ei THEN acc ELSE Head(s), Tail(s))

\* A fold that keeps the accumulator on a tie: the first maximum wins.
RECURSIVE MaxByKeyFirstFrom(_, _)
MaxByKeyFirstFrom(acc, s) ==
    IF s = <<>> THEN acc
    ELSE MaxByKeyFirstFrom(IF acc.ei >= Head(s).ei THEN acc ELSE Head(s), Tail(s))

max_by_key_first(s) == IF s = <<>> THEN NoPair ELSE MaxByKeyFirstFrom(Head(s), Tail(s))

max_by_key(s) == IF s = <<>> THEN NoPair ELSE MaxByKeyFrom(Head(s), Tail(s))

\* ------------------------------------------------------------------ rng

\* A uniform draw from [0, 1) is u / UniformDen for u in 0 .. UniformDen - 1.
UniformDen == 4

Uniforms == 0 .. (UniformDen - 1)

\* The standard normal variates the model draws (whole numbers only).
Normals == {-1, 0, 1}

\* ------------------------------------------------------------------ HistogramEstimator

\* The bin a value falls in: `x.floor() as usize`.
BinIndex(x) == IF is_nan(x) THEN 0 ELSE IF is_finite(x) THEN AsUsize(FloorInt(x)) ELSE AsUsize(x)

cardinality(range) == AsUsize(CeilInt(width(range)))

\* How many of xs fall in bin i (bins are numbered from 0).
RECURSIVE CountBin(_, _)
CountBin(xs, i) ==
    IF xs = <<>> THEN 0
    ELSE (IF BinIndex(Head(xs)) = i THEN 1 ELSE 0) + CountBin(Tail(xs), i)

\* The build with n counting the samples and one more, not one per bin.
HistogramBuildOnePrior(xs, range) ==
    LET card == cardinality(range)
    IN  [kind |-> "Histogram",
         panic |-> \E k \in DOMAIN xs : BinIndex(xs[k]) >= card,
         n |-> Len(xs) + 1,
         probabilities |-> [i \in 1 .. card |-> 1 + CountBin(xs, i - 1)],
         samples |-> <<>>,
         range |-> range]

\* HistogramEstimatorBuilder::build_density_estimator.  probabilities[i + 1] is
\* bin i's probability as a multiple of weight = 1 / n: it starts at one weight
\* and gains one per sample in the bin.  Indexing the vector with a bin that is
\* not below cardinality panics.
HistogramBuild(xs, range) ==
    LET card == cardinality(range)
        n == Len(xs) + card
    IN  [kind |-> "Histogram",
         panic |-> \E k \in DOMAIN xs : BinIndex(xs[k]) >= card,
         n |-> n,
         probabilities |-> [i \in 1 .. card |-> 1 + CountBin(xs, i - 1)],
         samples |-> <<>>,
         range |-> range]

\* Sum of the first k probabilities, in weights.
RECURSIVE Cumulative(_, _)
Cumulative(probabilities, k) ==
    IF k = 0 THEN 0 ELSE Cumulative(probabilities, k - 1) + probabilities[k]

\* WeightedIndex::sample: a uniform draw from [0, total) picks the first bin
\* whose cumulative weight exceeds it.  HistogramEstimator::sample casts it to f64.
HistogramSample(est, u) ==
    LET total == Cumulative(est.probabilities, Len(est.probabilities))
        below == {k \in DOMAIN est.probabilities :
                     Cumulative(est.probabilities, k) * UniformDen <= u * total}
    IN  Cardinality(below) * Unit

\* HistogramEstimator::log_pdf: the bin's probability, as the pair of its
\* numerator and denominator; out of bounds panics.
HistogramLogPdfPanics(est, x) == BinIndex(x) >= Len(est.probabilities)

HistogramLogPdf(est, x) ==
    [num |-> est.probabilities[BinIndex(x) + 1], den |-> est.n]

\* ------------------------------------------------------------------ ParzenEstimator

Normal(mean, stddev) == [mean |-> mean, stddev |-> stddev]

\* ParzenEstimatorBuilder::setup_stddev, first loop and the n >= 2 override.
RawStddev(xs, i, range) ==
    LET n == Len(xs)
        prev == IF i = 1 THEN range.start ELSE xs[i - 1].mean
        curr == xs[i].mean
        succ == IF i + 1 <= n THEN xs[i + 1].mean ELSE range.end
    IN  IF n >= 2 /\ i = 1 THEN FSub(xs[2].mean, xs[1].mean)
        ELSE IF n >= 2 /\ i = n THEN FSub(xs[n].mean, xs[n - 1].mean)
        ELSE FMax(FSub(curr, prev), FSub(succ, curr))

\* ParzenEstimatorBuilder::setup_stddev.
setup_stddev(xs, range) ==
    LET n == Len(xs)
        max_stddev == width(range)
        min_stddev == width(range) \div (IF 100 <= 1 + n THEN 100 ELSE 1 + n)
    IN  [i \in 1 .. n |->
            Normal(xs[i].mean, FMin(FMax(RawStddev(xs, i, range), min_stddev), max_stddev))]

\* ParzenEstimatorBuilder::build_density_estimator.  p_accept is a value of the
\* normal cdf and is not computed; it enters log_pdf only.
ParzenBuild(xs, range) ==
    LET prior == FHalf(FAdd(range.start, range.end))
        all == xs \o <<prior>>
        normals == [i \in 1 .. Len(all) |-> Normal(all[i], NaN)]
    IN  [kind |-> "Parzen",
         panic |-> FALSE,
         n |-> Len(all),
         probabilities |-> <<>>,
         samples |-> setup_stddev(sort_by_key(normals, "mean"), range),
         range |-> range]

\* One turn of the loop of ParzenEstimator::sample: SliceRandom::choose takes the
\* component at a uniform index, rand_distr::Normal gives mean + stddev * z.
ParzenDraw(est, u, z) ==
    LET x == est.samples[((u * Len(est.samples)) \div UniformDen) + 1]
    IN  FAdd(x.mean, x.stddev * z)

\* ------------------------------------------------------------------ DefaultEstimatorBuilder

build_density_estimator(builder, xs, range) ==
    IF builder = "Parzen" THEN ParzenBuild(xs, range) ELSE HistogramBuild(xs, range)

\* ------------------------------------------------------------------ state

VARIABLES
    pc,                  \* where the caller is: "range", "builder", "idle", "asking", "panicked"
    builder,             \* TpeOptimizerBuilder { gamma, candidates }
    param_range,         \* TpeOptimizer::param_range (and the Range that Range::new returned)
    estimator_builder,   \* TpeOptimizer::estimator_builder: "Parzen" or "Histogram"
    trials,              \* TpeOptimizer::trials
    is_sorted,           \* TpeOptimizer::is_sorted
    gamma,               \* TpeOptimizer::gamma
    candidates,          \* TpeOptimizer::candidates
    split_point,         \* ask: split_point
    superior_estimator,  \* ask: superior_estimator
    inferior_estimator,  \* ask: inferior_estimator
    taken,               \* ask: the (ei, candidate) pairs the iterator has yielded so far
    rejects,             \* ask: draws the running ParzenEstimator::sample call has rejected
    ret,                 \* the last call, its arguments and what it returned
    told,                \* history: the accepted tell calls, in call order
    interleaved,         \* history: a tell was accepted after an ask had sorted the list
    ref_superior,        \* history: the superior estimator of a fresh optimizer fed told
    ref_inferior,        \* history: its inferior estimator
    ref_taken,           \* history: what that optimizer yields on the same rng
    ref_ret,             \* history: what that optimizer's ask returned
    resorted             \* history: the running or last ask found the list unsorted

vars == <<pc, builder, param_range, estimator_builder, trials, is_sorted, gamma, candidates,
          split_point, superior_estimator, inferior_estimator, taken, rejects, ret,
          told, interleaved, ref_superior, ref_inferior, ref_taken, ref_ret, resorted>>

optimizer == <<param_range, estimator_builder, trials, is_sorted, gamma, candidates>>

history == <<told, interleaved, ref_superior, ref_inferior, ref_taken, ref_ret, resorted>>

locals == <<split_point, superior_estimator, inferior_estimator, taken, rejects>>

Trial(param, value) == [param |-> param, value |-> value]

NoEstimator ==
    [kind |-> "None", panic |-> FALSE, n |-> 0, probabilities |-> <<>>, samples |-> <<>>,
     range |-> NoRange]

Return(op, args, res, val, range) ==
    [op |-> op, args |-> args, res |-> res, val |-> val, range |-> range]

NoReturn == Return("none", <<>>, "Ok", NaN, NoRange)

\* ------------------------------------------------------------------ TpeOptimizer

\* The split point rounded down.
decide_split_point_floor(len, g) == AsUsize(FloorInt(len * g))

\* TpeOptimizer::decide_split_point.
decide_split_point(len, g) == AsUsize(CeilInt(len * g))

\* slice::split_at(mid): the two halves; it panics when mid > len.
SplitAtPanics(ts, mid) == mid > Len(ts)

superiors_of(ts, mid) == SubSeq(ts, 1, mid)

inferiors_of(ts, mid) == SubSeq(ts, mid + 1, Len(ts))

\* A sort that also drops a trial equal to its predecessor (sort, then dedup).
RECURSIVE Dedup(_)
Dedup(s) ==
    IF Len(s) <= 1 THEN s
    ELSE IF s[1] = s[2] THEN Dedup(Tail(s))
    ELSE <<s[1]>> \o Dedup(Tail(s))

SortedTrialsDedup(ts, sorted) == IF sorted THEN ts ELSE Dedup(sort_by_key(ts, "value"))

\* An ask that trusts the list to be sorted whatever the flag says.
SortedTrialsStale(ts, sorted) == ts

\* The order ask leaves self.trials in.
SortedTrials(ts, sorted) == IF sorted THEN ts ELSE sort_by_key(ts, "value")

\* tell with its two checks in the other order.
TellResultParamFirst(range, param, value) ==
    IF ~(is_nan(param) \/ contains(range, param)) THEN "ParamOutOfRange"
    ELSE IF is_nan(value) THEN "NanValue"
    ELSE "Ok"

\* tell with a range check that refuses the start of the range.
TellResultStrict(range, param, value) ==
    IF is_nan(value) THEN "NanValue"
    ELSE IF ~(is_nan(param) \/ (FLt(range.start, param) /\ FLt(param, range.end)))
    THEN "ParamOutOfRange"
    ELSE "Ok"

\* tell without the check of value.
TellResultAnyValue(range, param, value) ==
    IF ~(is_nan(param) \/ contains(range, param)) THEN "ParamOutOfRange" ELSE "Ok"

\* TpeOptimizer::tell: the error it returns, or "Ok".
TellResult(range, param, value) ==
    IF is_nan(value) THEN "NanValue"
    ELSE IF ~(is_nan(param) \/ contains(range, param)) THEN "ParamOutOfRange"
    ELSE "Ok"

\* TpeOptimizer::tell.  P and V are the arguments the caller may pass; an
\* accepted call is explored while the list is shorter than cap.
Tell(P, V, cap) ==
    /\ pc = "idle"
    /\ \E param \in P, value \in V :
          LET res == TellResult(param_range, param, value)
          IN  IF res = "Ok"
              THEN /\ Len(trials) < cap
                   /\ trials' = Append(trials, Trial(param, value))
                   /\ is_sorted' = FALSE
                   /\ told' = Append(told, Trial(param, value))
                   /\ interleaved' = (interleaved \/ (is_sorted /\ trials # <<>>))
                   /\ ret' = Return("tell", <<param, value>>, "Ok", NaN, NoRange)
              ELSE /\ ret' = Return("tell", <<param, value>>, res,
                                    IF res = "ParamOutOfRange" THEN param ELSE NaN,
                                    IF res = "ParamOutOfRange" THEN param_range ELSE NoRange)
                   /\ UNCHANGED <<trials, is_sorted, told, interleaved>>
    /\ ref_ret' = NaN
    /\ resorted' = FALSE
    /\ UNCHANGED <<pc, builder, param_range, estimator_builder, gamma, candidates, locals,
                   ref_superior, ref_inferior, ref_taken>>

\* The estimators a fresh optimizer builds when it is told `told` and then asked.
RefSplit == decide_split_point(Len(told), gamma)

RefSuperior ==
    build_density_estimator(estimator_builder,
        FiniteParams(superiors_of(sort_by_key(told, "value"), RefSplit)), param_range)

RefInferior ==
    build_density_estimator(estimator_builder,
        FiniteParams(inferiors_of(sort_by_key(told, "value"), RefSplit)), param_range)

\* TpeOptimizer::ask up to the construction of the two estimators: the sort, the
\* split and both build_density_estimator calls.
AskBegin ==
    /\ pc = "idle"
    /\ LET sorted == SortedTrials(trials, is_sorted)
           sp == decide_split_point(Len(sorted), gamma)
           sup == build_density_estimator(estimator_builder,
                      FiniteParams(superiors_of(sorted, sp)), param_range)
           inf == build_density_estimator(estimator_builder,
                      FiniteParams(inferiors_of(sorted, sp)), param_range)
       IN  /\ trials' = sorted
           /\ is_sorted' = TRUE
           /\ split_point' = IF SplitAtPanics(sorted, sp) THEN 0 ELSE sp
           /\ IF SplitAtPanics(sorted, sp) \/ sup.panic \/ (~sup.panic /\ inf.panic)
              THEN /\ pc' = "panicked"
                   /\ superior_estimator' = NoEstimator
                   /\ inferior_estimator' = NoEstimator
                   /\ ret' = Return("ask", <<>>, "panic", NaN, NoRange)
                   /\ ref_superior' = NoEstimator
                   /\ ref_inferior' = NoEstimator
              ELSE /\ pc' = "asking"
                   /\ superior_estimator' = sup
                   /\ inferior_estimator' = inf
                   /\ ret' = Return("ask", <<>>, "running", NaN, NoRange)
                   /\ ref_superior' = RefSuperior
                   /\ ref_inferior' = RefInferior
    /\ ref_ret' = NaN
    /\ resorted' = ~is_sorted
    /\ UNCHANGED <<builder, param_range, estimator_builder, gamma, candidates, taken, rejects,
                   told, interleaved, ref_taken>>

\* superior_log_likelihood - inferior_log_likelihood of a histogram pair: the
\* difference of two bin probabilities a / n1 - b / n2, kept as its numerator over
\* the denominator n1 * n2, which is the same for every candidate of one ask.
HistogramEi(sup, inf, x) ==
    LET a == HistogramLogPdf(sup, x)
        b == HistogramLogPdf(inf, x)
    IN  a.num * b.den - b.num * a.den

\* The values the model lets a Parzen log-likelihood difference take.  The
\* mixture's log density is not computed: each candidate's ei is any of these,
\* the same whenever one ask scores the same candidate twice.
ParzenEis == {0, 1}

Consistent(pairs, x, ei) == \A k \in DOMAIN pairs : pairs[k].candidate = x => pairs[k].ei = ei

\* The draw without the range check of ParzenEstimator::sample.
YieldUnchecked(sup, inf, u, z, ei) ==
    IF sup.kind = "Histogram"
    THEN LET x == HistogramSample(sup, u)
         IN  <<[ei |-> HistogramEi(sup, inf, x), candidate |-> x]>>
    ELSE <<[ei |-> ei, candidate |-> ParzenDraw(sup, u, z)]>>

\* A Parzen sampler none of whose draws passes the range check.
YieldNever(sup, inf, u, z, ei) ==
    IF sup.kind = "Histogram"
    THEN LET x == HistogramSample(sup, u)
         IN  <<[ei |-> HistogramEi(sup, inf, x), candidate |-> x]>>
    ELSE <<>>

\* What one draw adds to the pairs yielded so far: DefaultEstimator::sample on
\* the superior estimator, then the closure of `map`.  A rejected Parzen draw
\* adds nothing.
Yield(sup, inf, u, z, ei) ==
    IF sup.kind = "Histogram"
    THEN LET x == HistogramSample(sup, u)
         IN  <<[ei |-> HistogramEi(sup, inf, x), candidate |-> x]>>
    ELSE LET x == ParzenDraw(sup, u, z)
         IN  IF contains(sup.range, x) THEN <<[ei |-> ei, candidate |-> x]>> ELSE <<>>

\* One draw of `sample_iter(rng).take(candidates).map(..)`: u, z are what the rng
\* gives, ei the log-likelihood difference of a Parzen candidate.
AskDraw(U, Z, E) ==
    /\ pc = "asking"
    /\ Len(taken) < candidates
    /\ \E u \in U, z \in Z, ei \in E :
          LET got == Yield(superior_estimator, inferior_estimator, u, z, ei)
              ref == Yield(ref_superior, ref_inferior, u, z, ei)
          IN  /\ IF got # <<>>
                 THEN /\ Consistent(taken, got[1].candidate, got[1].ei)
                      /\ taken' = taken \o got
                      /\ rejects' = 0
                 ELSE /\ rejects < MaxRejects
                      /\ taken' = taken
                      /\ rejects' = rejects + 1
              /\ ref_taken' = IF Len(ref_taken) < candidates THEN ref_taken \o ref ELSE ref_taken
    /\ UNCHANGED <<pc, builder, optimizer, split_point, superior_estimator, inferior_estimator,
                   ret, told, interleaved, ref_superior, ref_inferior, ref_ret, resorted>>

\* A further turn of the loop of ParzenEstimator::sample that rejects its draw,
\* after the MaxRejects rejections the model counts: the loop has no cap, and
\* the turn leaves everything as it is.
AskRedraw(U, Z) ==
    /\ pc = "asking"
    /\ Len(taken) < candidates
    /\ rejects = MaxRejects
    /\ \E u \in U, z \in Z, ei \in ParzenEis :
          Yield(superior_estimator, inferior_estimator, u, z, ei) = <<>>
    /\ UNCHANGED vars

\* The end of ask: max_by_key over the pairs, then the candidate of the winner.
AskReturn ==
    /\ pc = "asking"
    /\ Len(taken) = candidates
    /\ pc' = "idle"
    /\ ret' = Return("ask", <<>>, "Ok", max_by_key(taken).candidate, NoRange)
    /\ split_point' = 0
    /\ superior_estimator' = NoEstimator
    /\ inferior_estimator' = NoEstimator
    /\ taken' = <<>>
    /\ rejects' = 0
    /\ ref_superior' = NoEstimator
    /\ ref_inferior' = NoEstimator
    /\ ref_taken' = <<>>
    /\ ref_ret' = IF Len(ref_taken) = candidates THEN max_by_key(ref_taken).candidate ELSE NaN
    /\ UNCHANGED <<builder, optimizer, told, interleaved, resorted>>

\* ------------------------------------------------------------------ construction

\* TpeOptimizerBuilder::default.
DefaultGamma == Unit \div 10

DefaultCandidates == 24

DefaultBuilder == [gamma |-> DefaultGamma, candidates |-> DefaultCandidates]

\* build with the gamma check written as two rejections, which lets NaN through.
BuildResultRejecting(b) ==
    IF FLt(b.gamma, 0) \/ FLt(Unit, b.gamma) THEN "GammaOutOfRange"
    ELSE IF b.candidates = 0 THEN "ZeroCandidates"
    ELSE "Ok"

\* TpeOptimizerBuilder::build: the error, or "Ok".
BuildResult(b) ==
    IF ~(FLe(0, b.gamma) /\ FLe(b.gamma, Unit)) THEN "GammaOutOfRange"
    ELSE IF b.candidates = 0 THEN "ZeroCandidates"
    ELSE "Ok"

\* The TpeOptimizer that build returns, as the state after construction.
Built(b, estimator, range) ==
    /\ param_range = range
    /\ estimator_builder = estimator
    /\ trials = <<>>
    /\ is_sorted = FALSE
    /\ gamma = b.gamma
    /\ candidates = b.candidates

\* No optimizer yet.
Unbuilt ==
    /\ param_range = NoRange
    /\ estimator_builder = "None"
    /\ trials = <<>>
    /\ is_sorted = FALSE
    /\ gamma = NaN
    /\ candidates = 0

Idle ==
    /\ split_point = 0
    /\ superior_estimator = NoEstimator
    /\ inferior_estimator = NoEstimator
    /\ taken = <<>>
    /\ rejects = 0
    /\ ret = NoReturn
    /\ told = <<>>
    /\ interleaved = FALSE
    /\ ref_superior = NoEstimator
    /\ ref_inferior = NoEstimator
    /\ ref_taken = <<>>
    /\ ref_ret = NaN
    /\ resorted = FALSE

\* TpeOptimizerBuilder::gamma and TpeOptimizerBuilder::candidates.
SetGamma(G) ==
    /\ pc = "builder"
    /\ \E g \in G : builder' = [builder EXCEPT !.gamma = g]
    /\ UNCHANGED <<pc, optimizer, locals, ret, history>>

SetCandidates(C) ==
    /\ pc = "builder"
    /\ \E c \in C : builder' = [builder EXCEPT !.candidates = c]
    /\ UNCHANGED <<pc, optimizer, locals, ret, history>>

\* What `b.build(estimator, range)` does to the caller's state.
BuildWith(op, b, estimator, range) ==
    LET res == BuildResult(b)
    IN  /\ ret' = Return(op, <<b.gamma, b.candidates>>, res, NaN, NoRange)
        /\ IF res = "Ok"
           THEN /\ pc' = "idle"
                /\ param_range' = range
                /\ estimator_builder' = estimator
                /\ trials' = <<>>
                /\ is_sorted' = FALSE
                /\ gamma' = b.gamma
                /\ candidates' = b.candidates
           ELSE /\ pc' = IF op = "new" THEN "panicked" ELSE pc
                /\ UNCHANGED optimizer

\* TpeOptimizerBuilder::build on the caller's builder.
Build(O) ==
    /\ pc = "builder"
    /\ \E o \in O : BuildWith("build", builder, o[1], o[2])
    /\ UNCHANGED <<builder, locals, history>>

\* TpeOptimizer::new: a default builder's build, then expect.
New(O) ==
    /\ pc = "builder"
    /\ \E o \in O : BuildWith("new", DefaultBuilder, o[1], o[2])
    /\ UNCHANGED <<builder, locals, history>>

\* ------------------------------------------------------------------ Range::new

\* Range::new, which leaves the Range it returns in param_range.
RangeNew(F) ==
    /\ pc = "range"
    /\ \E start \in F, end \in F :
          LET res == RangeNewResult(start, end)
              r == IF res = "Ok" THEN MkRange(start, end) ELSE NoRange
          IN  /\ ret' = Return("Range::new", <<start, end>>, res, NaN, r)
              /\ param_range' = r
    /\ UNCHANGED <<pc, builder, estimator_builder, trials, is_sorted, gamma, candidates,
                   locals, history>>

\* Range::contains on the Range last returned.
RangeContains(F) ==
    /\ pc = "range"
    /\ param_range # NoRange
    /\ \E v \in F :
          ret' = Return("contains", <<v>>, IF contains(param_range, v) THEN "true" ELSE "false",
                        NaN, param_range)
    /\ UNCHANGED <<pc, builder, optimizer, locals, history>>

\* ------------------------------------------------------------------ the protocol

Half == Unit \div 2

\* The optimizers the protocol is explored for: a numerical parameter, a
\* categorical_range(2), and a histogram over a range that does not start at 0.
Optimizers ==
    {<<"Histogram", MkRange(0, 2 * Unit)>>,
     <<"Histogram", MkRange(Unit, 3 * Unit)>>,
     <<"Parzen", MkRange(-Unit, Unit)>>}

Gammas == {Half}

Candidates == {2}

\* What the caller tells: the start of the range, a point three quarters in, the
\* end of the range; two objective values and NaN.
TellParams == {param_range.start, param_range.start + 3 * (width(param_range) \div 4),
               param_range.end}

TellValues == {0, Unit, NaN}

Init ==
    /\ pc = "idle"
    /\ builder \in [gamma : Gammas, candidates : Candidates]
    /\ BuildResult(builder) = "Ok"
    /\ \E o \in Optimizers :
          /\ RangeNewResult(o[2].start, o[2].end) = "Ok"
          /\ Built(builder, o[1], o[2])
    /\ Idle

TellAny == Tell(TellParams, TellValues, MaxTrials)

AskDrawAny == AskDraw(Uniforms, Normals, ParzenEis)

Next == TellAny \/ AskBegin \/ AskDrawAny \/ AskReturn

Spec == Init /\ [][Next]_vars

\* ------------------------------------------------------------------ the split

\* The same protocol over more values of gamma, with one draw of the rng.
SplitGammas == {0, DefaultGamma, Half, Unit}

SplitOptimizers == {<<"Histogram", MkRange(0, 2 * Unit)>>, <<"Parzen", MkRange(-Unit, Unit)>>}

InitSplit ==
    /\ pc = "idle"
    /\ builder \in [gamma : SplitGammas, candidates : {1}]
    /\ BuildResult(builder) = "Ok"
    /\ \E o \in SplitOptimizers :
          /\ RangeNewResult(o[2].start, o[2].end) = "Ok"
          /\ Built(builder, o[1], o[2])
    /\ Idle

TellSplit == Tell({param_range.start, param_range.start + Half, NaN}, {0, Unit}, MaxTrials)

AskDrawOne == AskDraw({0}, {0}, {0})

NextSplit == TellSplit \/ AskBegin \/ AskDrawOne \/ AskReturn

SpecSplit == InitSplit /\ [][NextSplit]_vars

\* ------------------------------------------------------------------ tell's arguments

\* Most trials recorded where every kind of argument of tell is explored.
MaxTold == 1

\* The f64 values explored as arguments.
F64s == {NegInf, -F64Max, -Unit, 0, Half, Unit, 2 * Unit, F64Max, PosInf, NaN}

TellWide == Tell(F64s, {NegInf, 0, PosInf, NaN}, MaxTold)

NextTell == TellWide \/ AskBegin \/ AskDrawOne \/ AskReturn

SpecTell == Init /\ [][NextTell]_vars

\* ------------------------------------------------------------------ building

BuildGammas == {NegInf, -DefaultGamma, 0, Half, Unit, Unit + DefaultGamma, PosInf, NaN}

BuildCandidates == {0, 1, 2}

BuildOptimizers == {<<"Histogram", MkRange(0, Unit)>>, <<"Parzen", MkRange(-Unit, Unit)>>}

InitBuild ==
    /\ pc = "builder"
    /\ builder = DefaultBuilder
    /\ Unbuilt
    /\ Idle

SetGammaAny == SetGamma(BuildGammas)

SetCandidatesAny == SetCandidates(BuildCandidates)

BuildAny == Build(BuildOptimizers)

NewAny == New(BuildOptimizers)

TellOne == Tell({param_range.start, param_range.end}, {0}, MaxTold)

NextBuild ==
    SetGammaAny \/ SetCandidatesAny \/ BuildAny \/ NewAny \/ TellOne \/ AskBegin \/ AskDrawOne
        \/ AskReturn

SpecBuild == InitBuild /\ [][NextBuild]_vars

\* ------------------------------------------------------------------ ranges

InitRange ==
    /\ pc = "range"
    /\ builder = DefaultBuilder
    /\ Unbuilt
    /\ Idle

RangeNewAny == RangeNew(F64s)

RangeContainsAny == RangeContains(F64s)

NextRange == RangeNewAny \/ RangeContainsAny

SpecRange == InitRange /\ [][NextRange]_vars

\* ------------------------------------------------------------------ Parzen estimators

\* Numerical parameters: a range around 0, and one whose start + end is beyond
\* f64::MAX although its width is finite, as for Range::new(1e308, 1.7e308).
ParzenOptimizers ==
    {<<"Parzen", MkRange(-Unit, Unit)>>, <<"Parzen", MkRange(100 * Unit, 160 * Unit)>>}

InitParzen ==
    /\ pc = "idle"
    /\ builder \in [gamma : Gammas, candidates : Candidates]
    /\ BuildResult(builder) = "Ok"
    /\ \E o \in ParzenOptimizers :
          /\ RangeNewResult(o[2].start, o[2].end) = "Ok"
          /\ Built(builder, o[1], o[2])
    /\ Idle

SpecParzen == InitParzen /\ [][Next]_vars

\* ------------------------------------------------------------------ the round trip

\* The loop of the crate's example: ask, evaluate, tell the value asked.
AskedParam == IF ret.op = "ask" /\ ret.res = "Ok" THEN {ret.val} ELSE {}

TellAsked == Tell(AskedParam, {NegInf, 0, NaN}, MaxTrials)

NextRound == TellAsked \/ AskBegin \/ AskDrawAny \/ AskReturn

SpecRound == Init /\ [][NextRound]_vars

\* ------------------------------------------------------------------ termination

AskRedrawAny == AskRedraw(Uniforms, Normals)

\* A draw that the range check of ParzenEstimator::sample lets through, or a
\* histogram's draw.
AskDrawAccepted == AskDrawAny /\ taken' # taken

NextLive == TellAny \/ AskBegin \/ AskDrawAny \/ AskRedrawAny \/ AskReturn

\* The protocol with a sample loop that may reject for ever.  Fairness: a draw
\* that is in range, possible at every turn of the loop, does occur, and a call
\* that has its candidates returns.
SpecLive ==
    /\ Init
    /\ [][NextLive]_vars
    /\ WF_vars(AskDrawAccepted)
    /\ WF_vars(AskReturn)

\* ------------------------------------------------------------------ properties

\* The multiset of the elements of a sequence.
BagOfSeq(s) ==
    [x \in {s[i] : i \in DOMAIN s} |-> Cardinality({i \in DOMAIN s : s[i] = x})]

\* The least whole number k with k >= num / den, for den > 0 and 0 <= num <= top * den.
CeilOf(num, den, top) == CHOOSE k \in 0 .. top : k * den >= num /\ (k - 1) * den < num

\* Whether the number v lies in [r.start, r.end), read off the codes.
InHalfOpen(r, v) == v \notin {NegInf, PosInf, NaN} /\ r.start <= v /\ v < r.end

\* C1: tell(param, value) returns NanValue whenever value is NaN, whatever param
\* is; otherwise ParamOutOfRange, carrying param and the optimizer's range,
\* exactly when param is not NaN and not in [start, end); otherwise it succeeds
\* and the pair is the last recorded trial.  A NaN param with a value that is
\* not NaN is accepted.
C1_TellOutcome ==
    ret.op = "tell" =>
        LET param == ret.args[1]
            value == ret.args[2]
        IN  IF value = NaN
            THEN ret.res = "NanValue"
            ELSE IF param # NaN /\ ~InHalfOpen(param_range, param)
            THEN ret.res = "ParamOutOfRange" /\ ret.val = param /\ ret.range = param_range
            ELSE /\ ret.res = "Ok"
                 /\ trials # <<>>
                 /\ trials[Len(trials)] = Trial(param, value)

\* tell(end, NaN) has answered NanValue on an optimizer that had accepted a NaN
\* param with the value +inf.
C1_Witness ==
    /\ ret.op = "tell"
    /\ ret.args = <<param_range.end, NaN>>
    /\ ret.res = "NanValue"
    /\ trials = <<Trial(NaN, PosInf)>>

\* C2: the multiset of recorded trials changes only in a successful tell, which
\* adds exactly the told pair; a failed tell leaves the list and the sort flag
\* as they were; no step of ask adds, removes or alters a trial, and none
\* changes the range, gamma or candidates.
C2_Frame ==
    [][/\ BagOfSeq(trials') # BagOfSeq(trials) => ret'.op = "tell" /\ ret'.res = "Ok"
       /\ ret'.op = "tell" /\ ret'.res = "Ok" =>
              BagOfSeq(trials') = BagOfSeq(trials) (+) SetToBag({Trial(ret'.args[1], ret'.args[2])})
       /\ ret'.op = "tell" /\ ret'.res # "Ok" => trials' = trials /\ is_sorted' = is_sorted
       /\ ret'.op = "ask" =>
              /\ BagOfSeq(trials') = BagOfSeq(trials)
              /\ Len(trials') = Len(trials)
              /\ param_range' = param_range
              /\ gamma' = gamma
              /\ candidates' = candidates]_vars

\* A tell has failed on an optimizer whose ask had put two equal trials, told
\* after a greater one, in front of it.
C2_Witness ==
    /\ ret.op = "tell"
    /\ ret.res = "NanValue"
    /\ Len(trials) = 3
    /\ trials[1] = trials[2]
    /\ trials # told
    /\ is_sorted

\* C3: the value ask returns lies in the range when the strategy is Parzen, and
\* is a whole number in [0, cardinality), cardinality = ceil(width), when it is
\* Histogram.
C3_AskInRange ==
    ret.op = "ask" /\ ret.res = "Ok" =>
        IF estimator_builder = "Parzen"
        THEN InHalfOpen(param_range, ret.val)
        ELSE /\ ret.val % Unit = 0
             /\ InHalfOpen(MkRange(0, Unit * CeilOf(param_range.end - param_range.start, Unit,
                                                     param_range.end - param_range.start)),
                           ret.val)

\* A Parzen optimizer with trials has returned the start of its range.
C3_Witness ==
    /\ ret.op = "ask"
    /\ ret.res = "Ok"
    /\ estimator_builder = "Parzen"
    /\ Len(trials) >= 2
    /\ ret.val = param_range.start

\* C4: no sequence of tell and ask calls panics.
C4_NoPanic == pc # "panicked"

\* C5: in an ask over n recorded trials, split_point = ceil(gamma * n) and
\* 0 <= split_point <= n; the list is the told trials in ascending order of
\* value; the superior estimator is built from the first split_point of them
\* and the inferior one from the other n - split_point, so every superior
\* value is at most every inferior value.
C5_Split ==
    pc = "asking" =>
        LET n == Len(told)
        IN  /\ Len(trials) = n
            /\ BagOfSeq(trials) = BagOfSeq(told)
            /\ \A i, j \in DOMAIN trials : i < j => trials[i].value <= trials[j].value
            /\ split_point = CeilOf(gamma * n, Unit, n)
            /\ split_point \in 0 .. n
            /\ superior_estimator =
                   build_density_estimator(estimator_builder,
                       FiniteParams(SubSeq(trials, 1, split_point)), param_range)
            /\ inferior_estimator =
                   build_density_estimator(estimator_builder,
                       FiniteParams(SubSeq(trials, split_point + 1, n)), param_range)
            /\ \A i \in 1 .. split_point, j \in (split_point + 1) .. n :
                   trials[i].value <= trials[j].value

\* An ask over three trials that it had to reorder, two of them superior.
C5_Witness ==
    /\ pc = "asking"
    /\ Len(trials) = 3
    /\ split_point = 2
    /\ trials # told
    /\ trials[2].value < trials[3].value

\* How many samples the builder of an estimator was handed.
Fed(est) ==
    IF est.kind = "Parzen" THEN Len(est.samples) - 1 ELSE est.n - Len(est.probabilities)

Present(ts, from, to) == Cardinality({i \in from .. to : ts[i].param # NaN})

\* C6: a trial told with a NaN param counts toward the n of split_point and has
\* its place in a group, but is not handed to a builder: each builder gets as
\* many samples as its group has trials whose param is not NaN, so the two get
\* as many as there are recorded trials whose param is not NaN.
C6_NanExcluded ==
    pc = "asking" =>
        /\ Len(trials) = Len(told)
        /\ split_point = CeilOf(gamma * Len(told), Unit, Len(told))
        /\ Fed(superior_estimator) = Present(trials, 1, split_point)
        /\ Fed(inferior_estimator) = Present(trials, split_point + 1, Len(trials))
        /\ Fed(superior_estimator) + Fed(inferior_estimator) = Present(told, 1, Len(told))

\* An ask with an absent param in each group and a present one on record.
C6_Witness ==
    /\ pc = "asking"
    /\ Len(trials) = 3
    /\ split_point \in 1 .. 2
    /\ trials[1].param = NaN
    /\ trials[3].param = NaN
    /\ trials[2].param # NaN

\* The bin probabilities behind a histogram candidate's ei, counted from the
\* recorded trials: (1 + hits) / (samples + bins) for each group, as the
\* numerator of their difference over the product of the two denominators.
BinHits(from, to, bin) ==
    Cardinality({i \in from .. to : trials[i].param # NaN /\ trials[i].param \div Unit = bin})

BinScore(bin) ==
    LET n == Len(trials)
        bins == CeilOf(param_range.end - param_range.start, Unit,
                       param_range.end - param_range.start)
    IN  (1 + BinHits(1, split_point, bin)) * (Present(trials, split_point + 1, n) + bins)
            - (1 + BinHits(split_point + 1, n, bin)) * (Present(trials, 1, split_point) + bins)

\* C7: ask yields exactly `candidates` pairs, each candidate a draw from the
\* superior estimator (for Parzen a component of the superior mixture moved by
\* a multiple of its stddev, for Histogram a bin scored by the superior minus
\* the inferior bin probability), and returns a candidate whose ei is maximal;
\* among several of maximal ei, the one yielded last.
C7_LastMaxWins ==
    [][/\ pc = "asking" /\ pc' = "asking" /\ taken' # taken =>
              /\ Len(taken') = Len(taken) + 1
              /\ Len(taken') <= candidates
              /\ SubSeq(taken', 1, Len(taken)) = taken
              /\ LET c == taken'[Len(taken')]
                 IN  IF estimator_builder = "Parzen"
                     THEN \E i \in DOMAIN superior_estimator.samples, z \in Normals :
                              c.candidate = superior_estimator.samples[i].mean
                                                + z * superior_estimator.samples[i].stddev
                     ELSE /\ c.candidate % Unit = 0
                          /\ c.ei = BinScore(c.candidate \div Unit)
       /\ pc = "asking" /\ pc' = "idle" =>
              /\ Len(taken) = candidates
              /\ \E k \in DOMAIN taken :
                    /\ ret'.val = taken[k].candidate
                    /\ \A j \in DOMAIN taken : taken[j].ei <= taken[k].ei
                    /\ \A j \in DOMAIN taken : j > k => taken[j].ei < taken[k].ei]_vars

\* Every candidate of an ask has been drawn, and two different ones tie.
C7_Witness ==
    /\ pc = "asking"
    /\ Len(taken) = candidates
    /\ taken[1].ei = taken[2].ei
    /\ taken[1].candidate # taken[2].candidate

\* C8: ask is a function of the configuration, the accepted tell calls in
\* order and the rng: however many asks came between the tells, ask builds the
\* estimators, draws the candidates and returns the value that an optimizer
\* of the same configuration does which was told the same calls and is asked
\* for the first time, on the same rng.
C8_Deterministic ==
    /\ pc = "asking" =>
           /\ split_point = RefSplit
           /\ superior_estimator = RefSuperior
           /\ inferior_estimator = RefInferior
           /\ ref_superior = RefSuperior
           /\ ref_inferior = RefInferior
           /\ taken = ref_taken
    /\ ret.op = "ask" /\ ret.res = "Ok" => ret.val = ref_ret

\* An ask has returned on a list that an earlier ask had sorted before the last
\* tells, with equal values told at both times.
C8_Witness ==
    /\ ret.op = "ask"
    /\ ret.res = "Ok"
    /\ interleaved
    /\ Len(trials) = 3
    /\ trials # told
    /\ trials[1].value = trials[2].value
    /\ trials[1].param # trials[2].param

\* Whether gamma, read off its code, is a number in [0, 1].
GammaInUnit(g) == g \notin {NegInf, PosInf, NaN} /\ 0 <= g /\ g <= Unit

\* C9: build fails with GammaOutOfRange exactly when gamma is not in [0, 1]
\* (NaN included, 0 and 1 accepted), otherwise with ZeroCandidates exactly when
\* candidates is 0, otherwise it returns an optimizer without trials whose
\* gamma and candidates are the builder's; TpeOptimizer::new gives gamma 0.1
\* and 24 candidates and does not fail; no later call changes either field.
C9_Build ==
    [][/\ pc = "builder" /\ builder' = builder /\ ret'.op = "build" =>
              IF ~GammaInUnit(builder.gamma)
              THEN ret'.res = "GammaOutOfRange" /\ pc' = "builder"
              ELSE IF builder.candidates = 0
              THEN ret'.res = "ZeroCandidates" /\ pc' = "builder"
              ELSE /\ ret'.res = "Ok"
                   /\ pc' = "idle"
                   /\ trials' = <<>>
                   /\ gamma' = builder.gamma
                   /\ candidates' = builder.candidates
       /\ pc = "builder" /\ builder' = builder /\ ret'.op = "new" =>
              /\ ret'.res = "Ok"
              /\ pc' = "idle"
              /\ trials' = <<>>
              /\ 10 * gamma' = Unit
              /\ candidates' = 24
       /\ pc # "builder" => gamma' = gamma /\ candidates' = candidates]_vars

\* build has refused a NaN gamma on a builder that also has zero candidates.
C9_Witness ==
    /\ ret.op = "build"
    /\ ret.res = "GammaOutOfRange"
    /\ builder = [gamma |-> NaN, candidates |-> 0]

\* Whether end - start is not a finite f64, read off the codes.
SpanNotFinite(start, end) ==
    \/ start \in {NegInf, PosInf, NaN}
    \/ end \in {NegInf, PosInf, NaN}
    \/ end - start > F64Max
    \/ end - start < -F64Max

\* What Range::contains answered is start <= v < end, and the Range is finite
\* with start < end.
ContainsIsHalfOpen ==
    ret.op = "contains" =>
        /\ ~SpanNotFinite(param_range.start, param_range.end)
        /\ param_range.start < param_range.end
        /\ (ret.res = "true") = InHalfOpen(param_range, ret.args[1])

\* C10 as amended: Range::new fails with NonFiniteRange exactly when
\* end - start is not finite, which is so whenever an operand is NaN or
\* infinite; otherwise it fails with EmptyRange exactly when start >= end;
\* otherwise it returns the Range, which has finite start < end, and contains
\* is start <= v < end.
C10_RangeNew ==
    /\ ret.op = "Range::new" =>
           LET start == ret.args[1]
               end == ret.args[2]
           IN  IF SpanNotFinite(start, end) THEN ret.res = "NonFiniteRange"
               ELSE IF start >= end THEN ret.res = "EmptyRange"
               ELSE ret.res = "Ok" /\ ret.range = MkRange(start, end)
    /\ ContainsIsHalfOpen

\* Range::new has refused a NaN start with NonFiniteRange.
C10_Witness ==
    /\ ret.op = "Range::new"
    /\ ret.args = <<NaN, Unit>>
    /\ ret.res = "NonFiniteRange"

\* C10 as stated: Range::new fails with EmptyRange whenever start < end does
\* not hold, an operand being NaN included, and with NonFiniteRange if
\* end - start is not finite.
C10_Original ==
    /\ ret.op = "Range::new" =>
           LET start == ret.args[1]
               end == ret.args[2]
           IN  /\ ~(start # NaN /\ end # NaN /\ start < end) => ret.res = "EmptyRange"
               /\ (ret.res # "Ok") =
                      (SpanNotFinite(start, end) \/ ~(start # NaN /\ end # NaN /\ start < end))
    /\ ContainsIsHalfOpen

\* Whether every recorded param is NaN or a number in the range.
ParamsValid == \A i \in DOMAIN trials : trials[i].param = NaN \/ InHalfOpen(param_range, trials[i].param)

\* C11 as amended: every recorded trial has a value that is not NaN (an
\* infinite value is recorded) and a param that is NaN or in the optimizer's
\* range.
C11_TrialsValid ==
    /\ \A i \in DOMAIN trials : trials[i].value # NaN
    /\ ParamsValid

\* tell(0, -inf) has been accepted and the trial is on record.
C11_Witness ==
    /\ ret.op = "tell"
    /\ ret.res = "Ok"
    /\ ret.args = <<0, NegInf>>
    /\ trials = <<Trial(0, NegInf)>>

\* C11 as stated: every recorded trial has a finite value, neither NaN nor an
\* infinity, and a param that is NaN or in the optimizer's range.
C11_Original ==
    /\ \A i \in DOMAIN trials : trials[i].value \notin {NegInf, PosInf, NaN}
    /\ ParamsValid

\* Whether a list of trials is in ascending order of value.
Ascending(ts) == \A i, j \in DOMAIN ts : i < j => ts[i].value <= ts[j].value

\* C12: whenever is_sorted is true the list is in ascending order of value; a
\* successful tell appends to the list as it is and sets is_sorted to false;
\* the start of ask leaves the flag true and the list ascending, and when the
\* flag was already true it leaves the list as it was, so that the groups of
\* an ask that follows an ask are slices of the same list; no later step of
\* ask touches the list or the flag.
C12_DirtyFlag ==
    /\ [](is_sorted => Ascending(trials))
    /\ [][/\ ret'.op = "tell" /\ ret'.res = "Ok" =>
                 /\ ~is_sorted'
                 /\ SubSeq(trials', 1, Len(trials)) = trials
          /\ pc = "idle" /\ ret'.op = "ask" =>
                 /\ is_sorted'
                 /\ Ascending(trials')
                 /\ BagOfSeq(trials') = BagOfSeq(trials)
                 /\ is_sorted => trials' = trials
                 /\ is_sorted /\ pc' = "asking" =>
                        LET n == Len(trials)
                            sp == CeilOf(gamma * n, Unit, n)
                        IN  /\ split_point' = sp
                            /\ superior_estimator' =
                                   build_density_estimator(estimator_builder,
                                       FiniteParams(SubSeq(trials, 1, sp)), param_range)
                            /\ inferior_estimator' =
                                   build_density_estimator(estimator_builder,
                                       FiniteParams(SubSeq(trials, sp + 1, n)), param_range)
          /\ pc = "asking" => is_sorted /\ is_sorted' /\ trials' = trials]_vars

\* An ask is running that found the flag true, on three trials that an
\* earlier ask had put in another order than they were told in.
C12_Witness ==
    /\ pc = "asking"
    /\ ~resorted
    /\ is_sorted
    /\ Len(trials) = 3
    /\ trials # told
    /\ split_point = 2

\* The sum of a sequence of whole numbers.
RECURSIVE SumSeq(_)
SumSeq(q) == IF q = <<>> THEN 0 ELSE Head(q) + SumSeq(Tail(q))

\* Whether est is the histogram of the params of trials[from .. to] over the
\* bins of the range: as many bins as ceil(width), bin i with probability
\* (1 + hits in bin i) / (m + bins) for the m params that are not NaN, each
\* probability positive and all of them summing to 1.
HistogramOf(est, from, to) ==
    LET bins == CeilOf(param_range.end - param_range.start, Unit,
                       param_range.end - param_range.start)
        m == Present(trials, from, to)
    IN  /\ Len(est.probabilities) = bins
        /\ est.n = m + bins
        /\ \A i \in 0 .. (bins - 1) :
               /\ est.probabilities[i + 1] = 1 + BinHits(from, to, i)
               /\ est.probabilities[i + 1] > 0
        /\ SumSeq(est.probabilities) = est.n

\* C13: the histogram built from m samples that are valid bin indices has
\* ceil(width) bins, bin i has probability (1 + samples with floor = i) /
\* (m + bins), every probability is positive, also for m = 0, and they sum to 1.
C13_Histogram ==
    pc = "asking" /\ estimator_builder = "Histogram" =>
        /\ HistogramOf(superior_estimator, 1, split_point)
        /\ HistogramOf(inferior_estimator, split_point + 1, Len(trials))

\* Two samples in bin 1 made the superior histogram, one in bin 0 the inferior
\* one.
C13_Witness ==
    /\ pc = "asking"
    /\ superior_estimator.kind = "Histogram"
    /\ superior_estimator.probabilities = <<1, 3>>
    /\ superior_estimator.n = 4
    /\ inferior_estimator.probabilities = <<2, 1>>
    /\ inferior_estimator.n = 3

\* The params of trials[from .. to] that are not NaN, as a multiset.
ParamBag(from, to) ==
    LET g == SelectSeq(SubSeq(trials, from, to), LAMBDA t : t.param # NaN)
    IN  BagOfSeq([i \in DOMAIN g |-> g[i].param])

\* Whether est is the Parzen mixture the claim describes for the params of
\* trials[from .. to]: they and one prior at the middle of the range are the
\* means, in ascending order; a stddev is the larger of the gaps to the two
\* neighbours, start and end standing in for a missing one, but the inward gap
\* alone for the first and the last of two or more components, and is then
\* clamped into [width / min(100, 1 + n), width]; it is positive.
ParzenOf(est, from, to) ==
    LET n == Len(est.samples)
        w == param_range.end - param_range.start
        k == IF 1 + n < 100 THEN 1 + n ELSE 100
        mean(i) == est.samples[i].mean
        gapL(i) == mean(i) - (IF i = 1 THEN param_range.start ELSE mean(i - 1))
        gapR(i) == (IF i = n THEN param_range.end ELSE mean(i + 1)) - mean(i)
        raw(i) == IF n >= 2 /\ i = 1 THEN gapR(1)
                  ELSE IF n >= 2 /\ i = n THEN gapL(n)
                  ELSE IF gapL(i) >= gapR(i) THEN gapL(i) ELSE gapR(i)
    IN  /\ n = Present(trials, from, to) + 1
        /\ BagOfSeq([i \in 1 .. n |-> mean(i)])
               = ParamBag(from, to) (+) SetToBag({(param_range.start + param_range.end) \div 2})
        /\ \A i \in 1 .. (n - 1) : mean(i) <= mean(i + 1)
        /\ \A i \in 1 .. n :
               LET sd == est.samples[i].stddev
               IN  /\ IF raw(i) * k < w THEN sd * k = w
                      ELSE IF raw(i) > w THEN sd = w
                      ELSE sd = raw(i)
                   /\ sd > 0

\* C14: the Parzen estimator built from m in-range samples has n = m + 1
\* components, the samples and one prior at the midpoint of the range, in
\* ascending order of mean, with the stddevs of the gap rule clamped into
\* [width / min(100, 1 + n), width], all positive.
C14_Parzen ==
    pc = "asking" /\ estimator_builder = "Parzen" =>
        /\ ParzenOf(superior_estimator, 1, split_point)
        /\ ParzenOf(inferior_estimator, split_point + 1, Len(trials))

\* C15: every turn of the sample loop either is rejected, which only a Parzen
\* estimator does and which leaves the candidates as they are, or yields one
\* more candidate, in range for Parzen, of at most `candidates`; an ask whose
\* in-range draws do occur returns, while tell and the other steps of ask are
\* single steps.
C15_SampleLoop ==
    /\ [][/\ pc = "asking" /\ pc' = "asking" =>
                 \/ /\ estimator_builder = "Parzen"
                    /\ taken' = taken
                    /\ rejects' = rejects + 1
                 \/ /\ Len(taken') = Len(taken) + 1
                    /\ Len(taken') <= candidates
                    /\ SubSeq(taken', 1, Len(taken)) = taken
                    /\ rejects' = 0
                    /\ estimator_builder = "Parzen" =>
                           InHalfOpen(param_range, taken'[Len(taken')].candidate)
          /\ pc = "idle" => pc' \in {"asking", "idle", "panicked"} /\ taken' = <<>>
          /\ pc = "asking" /\ pc' # "asking" => pc' = "idle" /\ Len(taken) = candidates]_vars
    /\ (pc = "asking") ~> (pc = "idle")

\* The sample loop of a Parzen ask has rejected as many draws as the model
\* counts, with one candidate still to come.
C15_Witness ==
    /\ pc = "asking"
    /\ estimator_builder = "Parzen"
    /\ rejects = MaxRejects
    /\ Len(taken) = candidates - 1
    /\ Len(trials) = 3

\* Whether the range is a categorical_range(k): [0, k) for a whole k.
Categorical == param_range.start = 0 /\ param_range.end % Unit = 0

\* C16: a tell that passes the value x the preceding ask returned, with a
\* value that is not NaN, succeeds and records the pair whenever the optimizer
\* is Parzen or x lies in the range; and x does lie in the range for every
\* Parzen optimizer and for a Histogram optimizer over a categorical_range(k).
C16_RoundTrip ==
    [][ret.op = "ask" /\ ret.res = "Ok" /\ ret'.op = "tell" /\ ret'.args[2] # NaN =>
           /\ ret'.args[1] = ret.val
           /\ estimator_builder = "Parzen" \/ Categorical => InHalfOpen(param_range, ret.val)
           /\ InHalfOpen(param_range, ret.val) =>
                  /\ ret'.res = "Ok"
                  /\ trials' = Append(trials, Trial(ret.val, ret'.args[2]))]_vars

\* A Parzen optimizer was told the start of its range, which its ask had
\* returned, as its second trial.
C16_Witness ==
    /\ ret.op = "tell"
    /\ ret.res = "Ok"
    /\ estimator_builder = "Parzen"
    /\ ret.args[1] = param_range.start
    /\ Len(trials) = 2

====
